---- MODULE Spec2Model ----
(***************************************************************************)
(* syncat: the parent's feed loop of main(), the window-title side         *)
(* channel (set_window_title_cb) and the attributed screen dumper          *)
(* (dump_screen), modelled from syncat.py.                                 *)
(*                                                                         *)
(* The emulated terminal (pyte) is an external collaborator.  A chunk read *)
(* from the PTY master is modelled by its effect on the terminal: it       *)
(* either stores a character in one cell of the sparse buffer, or it       *)
(* carries a "set window title" sequence, which makes the terminal call    *)
(* screen.set_title(title), i.e. set_window_title_cb.                      *)
(***************************************************************************)
EXTENDS Integers, Sequences, FiniteSets, TLC

\* ------------------------------------------------------------------ bounds
\* Chunks the child writes to the PTY slave during one run.
MaxChunks == 3
\* Chunks fed directly to the terminal in the screen-level specification.
MaxOps == 4
\* screen.columns, as returned by os.get_terminal_size().
Columns == 3
\* Rows of the emulated terminal (1000 in the program, scaled down).
MAX_LINES == 2
\* Largest line number sent over the window-title side channel.
MaxTitle == 2

\* ----------------------------------------------------------------- helpers
Max(a, b) == IF a >= b THEN a ELSE b
Min(a, b) == IF a <= b THEN a ELSE b

RECURSIVE Flatten(_)
Flatten(ss) == IF ss = <<>> THEN <<>> ELSE Head(ss) \o Flatten(Tail(ss))

\* ------------------------------------------------------------ the terminal
\* pyte Char: only the character is kept; default_char is a blank.
CellChar == "x"
default_char == " "

DigitChars == <<"0", "1", "2", "3", "4", "5", "6", "7", "8", "9">>

DigitVal(ch) == CHOOSE d \in 0..9 : DigitChars[d + 1] = ch

IsDigit(ch) == \E d \in 0..9 : DigitChars[d + 1] = ch

\* The decimal text of a line number, as vim's line('.') prints it.
RECURSIVE NumText(_)
NumText(n) == IF n < 10 THEN <<DigitChars[n + 1]>>
              ELSE NumText(n \div 10) \o <<DigitChars[(n % 10) + 1]>>

\* Titles the terminal may pass to set_title.
Titles == { NumText(n) : n \in 0..MaxTitle } \cup { <<"-", "1">>, <<"x">> }

\* Python int(title): an optional sign, then one or more decimal digits;
\* anything else raises ValueError.
RECURSIVE DigitsValue(_, _)
DigitsValue(ds, acc) == IF ds = <<>> THEN acc
                        ELSE DigitsValue(Tail(ds), acc * 10 + DigitVal(Head(ds)))

ParseInt(title) ==
    LET signed == Len(title) > 0 /\ title[1] \in {"-", "+"}
        body   == IF signed THEN Tail(title) ELSE title
        ok     == Len(body) > 0 /\ \A i \in 1..Len(body) : IsDigit(body[i])
        mag    == IF ok THEN DigitsValue(body, 0) ELSE 0
    IN  [ok |-> ok,
         val |-> IF signed /\ title[1] = "-" THEN 0 - mag ELSE mag]

\* Chunks: what the child writes and the parent reads and feeds.
DrawChunk(r, c) == [kind |-> "draw", row |-> r, col |-> c, title |-> <<>>]
TitleChunk(t)   == [kind |-> "title", row |-> 0, col |-> 0, title |-> t]
\* An erase that touches row r: the row is stored, no cell is written.
EraseChunk(r)   == [kind |-> "erase", row |-> r, col |-> 0, title |-> <<>>]

Chunks == { DrawChunk(r, c) : r \in 0..(MAX_LINES - 1), c \in 0..(Columns - 1) }
          \cup { EraseChunk(r) : r \in 0..(MAX_LINES - 1) }
          \cup { TitleChunk(t) : t \in Titles }

\* What the child writes to the PTY in the loop-level specification: a
\* character for the first or for the last cell of the screen, or a title
\* sequence.  (The dumper is exercised on every chunk in SpecScreen.)
PtyChunks == { DrawChunk(0, 0), DrawChunk(MAX_LINES - 1, Columns - 1) }
             \cup { TitleChunk(t) : t \in Titles }

\* The local variable buf of main() before its first assignment.
Unbound == [kind |-> "unbound", row |-> 0, col |-> 0, title |-> <<>>]

\* screen.buffer: a sparse mapping row index -> row; a row is a dict
\* column -> Char, iterated in insertion order, kept here as the sequence
\* of its entries in that order.
RowHas(row, c) == \E i \in 1..Len(row) : row[i].col = c

RowSet(row, c, ch) ==
    IF RowHas(row, c)
    THEN [i \in 1..Len(row) |-> IF row[i].col = c
                                 THEN [col |-> c, data |-> ch] ELSE row[i]]
    ELSE Append(row, [col |-> c, data |-> ch])

\* Storing a character at (r, c); the row is created on first access.
ScreenDraw(buffer, r, c) ==
    LET old == IF r \in DOMAIN buffer THEN buffer[r] ELSE <<>>
    IN  [k \in (DOMAIN buffer) \cup {r} |->
            IF k = r THEN RowSet(old, c, CellChar) ELSE buffer[k]]

\* Touching row r without writing a cell (the row is created on access).
ScreenErase(buffer, r) ==
    [k \in (DOMAIN buffer) \cup {r} |->
        IF k \in DOMAIN buffer THEN buffer[k] ELSE <<>>]

\* ------------------------------------------------------------- dump_screen
\* _dump_char_full(sys.stdout, char): one attribute group followed by the
\* character.  row and col name the cell the character was taken for
\* (col is the loop's curidx for default_char, charidx for a stored cell).
dump_char_full(rowidx, colidx, ch, isdefault) ==
    [kind |-> "char", row |-> rowidx, col |-> colidx, data |-> ch,
     dflt |-> isdefault]

\* sys.stdout.write(fx.reset + "\n"); col is the value of curidx.
reset_newline(rowidx, curidx) ==
    [kind |-> "nl", row |-> rowidx, col |-> curidx, data |-> "\n",
     dflt |-> FALSE]

\* Mutant of gap_fill: the fill starts one column late.
gap_fill_late(rowidx, curidx, charidx) ==
    [k \in 1..Max(0, charidx - curidx - 1) |->
        dump_char_full(rowidx, curidx + k, default_char, TRUE)]

\* for curidx in range(curidx, charidx): _dump_char_full(default_char)
gap_fill(rowidx, curidx, charidx) ==
    [k \in 1..Max(0, charidx - curidx) |->
        dump_char_full(rowidx, curidx + k - 1, default_char, TRUE)]

\* for charidx, char in row.items(): the entries in storage order, from
\* entry i on, with the running column cursor curidx.
RECURSIVE dump_cells(_, _, _, _)
dump_cells(rowidx, row, i, curidx) ==
    IF i > Len(row) THEN [toks |-> <<>>, curidx |-> curidx]
    ELSE LET charidx == row[i].col
             here    == gap_fill(rowidx, curidx, charidx)
                        \o <<dump_char_full(rowidx, charidx, row[i].data, FALSE)>>
             rest    == dump_cells(rowidx, row, i + 1, charidx + 1)
         IN  [toks |-> here \o rest.toks, curidx |-> rest.curidx]

\* if curidx != screen.columns - 1
newline_needed(curidx, columns) == curidx # columns - 1

\* The body of the outer loop of dump_screen for one row.
dump_row(rowidx, row, columns) ==
    LET r == dump_cells(rowidx, row, 1, 0)
    IN  r.toks \o (IF newline_needed(r.curidx, columns)
                   THEN <<reset_newline(rowidx, r.curidx)>> ELSE <<>>)

\* sorted(list(screen.buffer.items())): the stored rows by row index.
RECURSIVE SortedSeq(_)
SortedSeq(S) ==
    IF S = {} THEN <<>>
    ELSE LET m == CHOOSE x \in S : \A y \in S : x <= y
         IN  <<m>> \o SortedSeq(S \ {m})

\* seq[a:b] for 0 <= a and 0 <= b.
PySlice(seq, a, b) == SubSeq(seq, a + 1, Min(b, Len(seq)))

\* The rows dump_screen walks: positions row_start..row_end-1 of the
\* sorted list of the stored rows.
dumped_rows(buffer, row_start, row_end) ==
    PySlice(SortedSeq(DOMAIN buffer), row_start, row_end)

\* dump_screen(screen, row_start, row_end): per dumped row, its index, its
\* stored cells and what is written to sys.stdout for it.
dump_screen(buffer, row_start, row_end, columns) ==
    LET idx == dumped_rows(buffer, row_start, row_end)
    IN  [k \in 1..Len(idx) |->
            [rowidx |-> idx[k], cells |-> buffer[idx[k]],
             toks |-> dump_row(idx[k], buffer[idx[k]], columns)]]

\* ----------------------------------------------------- set_window_title_cb
\* Mutant of dump_due: a repeated value triggers a dump again.
dump_due_geq(row, rowprev) == row >= rowprev

\* if row > rowprev
dump_due(row, rowprev) == row > rowprev

\* Mutant of dump_range: the dump starts at the last triggered value.
dump_range_new_rows(row, rowprev) == [row_start |-> rowprev, row_end |-> row]

\* The arguments of dump_screen(screen, 0, row).
dump_range(row, rowprev) == [row_start |-> 0, row_end |-> row]

\* Mutant of set_window_title_cb: syncat_cb_rowprev is assigned outside
\* the if, also when the value is not greater.
set_window_title_cb_store_always(buffer, rowprev, title, columns) ==
    LET p == ParseInt(title)
        rg == dump_range(p.val, rowprev)
    IN  IF ~p.ok
        THEN [raised |-> TRUE, dumped |-> FALSE, row |-> 0,
              row_start |-> 0, row_end |-> 0, rows |-> <<>>,
              rowprev |-> rowprev]
        ELSE IF dump_due(p.val, rowprev)
        THEN [raised |-> FALSE, dumped |-> TRUE, row |-> p.val,
              row_start |-> rg.row_start, row_end |-> rg.row_end,
              rows |-> dump_screen(buffer, rg.row_start, rg.row_end, columns),
              rowprev |-> p.val]
        ELSE [raised |-> FALSE, dumped |-> FALSE, row |-> p.val,
              row_start |-> 0, row_end |-> 0, rows |-> <<>>,
              rowprev |-> p.val]

\* set_window_title_cb(screen, title): raised, or the dump done (if any)
\* and the new syncat_cb_rowprev.
set_window_title_cb(buffer, rowprev, title, columns) ==
    LET p == ParseInt(title)
        rg == dump_range(p.val, rowprev)
    IN  IF ~p.ok
        THEN [raised |-> TRUE, dumped |-> FALSE, row |-> 0,
              row_start |-> 0, row_end |-> 0, rows |-> <<>>,
              rowprev |-> rowprev]
        ELSE IF dump_due(p.val, rowprev)
        THEN [raised |-> FALSE, dumped |-> TRUE, row |-> p.val,
              row_start |-> rg.row_start, row_end |-> rg.row_end,
              rows |-> dump_screen(buffer, rg.row_start, rg.row_end, columns),
              rowprev |-> p.val]
        ELSE [raised |-> FALSE, dumped |-> FALSE, row |-> p.val,
              row_start |-> 0, row_end |-> 0, rows |-> <<>>,
              rowprev |-> rowprev]

\* What one dump writes to sys.stdout.
dump_output(rows) == Flatten([k \in 1..Len(rows) |-> rows[k].toks])

\* Mutant of set_title: the method is not patched, a title is only stored.
set_title_unpatched(buffer, rowprev, title, columns) ==
    [raised |-> FALSE, dumped |-> FALSE, row |-> 0, row_start |-> 0,
     row_end |-> 0, rows |-> <<>>, rowprev |-> rowprev]

\* screen.set_title = types.MethodType(set_window_title_cb, screen)
set_title(buffer, rowprev, title, columns) ==
    set_window_title_cb(buffer, rowprev, title, columns)

\* ----------------------------------------------------------- startup
\* The answer of os.get_terminal_size() on a descriptor: a size, or the
\* errno of the OSError.
SizeOk(c, r) == [err |-> "none", cols |-> c, rows |-> r]
SizeErr(e)   == [err |-> e, cols |-> 0, rows |-> 0]

\* main() when pty_fork() has returned in the parent: the file named by
\* sys.argv[1] is a regular file, stdout is the terminal.
Forked ==
    [pc |-> "forked", path |-> "regular", q_out |-> SizeOk(Columns, 1),
     q_err |-> SizeOk(Columns, 1), cols |-> Columns, rows |-> 1,
     exc |-> "none"]

\* What sys.argv[1] names, and what os.get_terminal_size() may answer.
PathStates == {"regular", "missing", "directory", "unreadable"}
SizeAnswers ==
    { SizeOk(c, r) : c \in 1..Columns, r \in 1..MAX_LINES }
    \cup { SizeErr("ENOTTY"), SizeErr("EBADF") }

\* main() at its first line, for every file and terminal it may be given.
StartStates ==
    { [pc |-> "start", path |-> p, q_out |-> qo, q_err |-> qe,
       cols |-> 0, rows |-> 0, exc |-> "none"] :
        p \in PathStates, qo \in SizeAnswers, qe \in SizeAnswers }

\* --------------------------------------------------------- _dump_char_full
HexDigits == <<"0", "1", "2", "3", "4", "5", "6", "7", "8", "9",
               "a", "b", "c", "d", "e", "f">>

HexVal(ch) == CHOOSE d \in 0..15 : HexDigits[d + 1] = ch

\* int(s, 16)
RECURSIVE HexInt(_, _)
HexInt(ds, acc) == IF ds = <<>> THEN acc
                   ELSE HexInt(Tail(ds), acc * 16 + HexVal(Head(ds)))

\* Colour names that are attributes of ansi.color.fg and ansi.color.bg.
NamedColors == { <<"d", "e", "f", "a", "u", "l", "t">>, <<"r", "e", "d">> }

\* 6-hex-digit colour values, as pyte stores 256-colour and true colours.
HexColors == { <<"1", "a", "2", "b", "3", "c">>,
               <<"f", "f", "0", "0", "8", "0">> }

\* The directives _dump_char_full joins into one string.
Fx(name) == [kind |-> "fx", arg |-> <<name>>, r |-> 0, g |-> 0, b |-> 0]
Named(layer, name) == [kind |-> layer, arg |-> name, r |-> 0, g |-> 0, b |-> 0]
TrueColor(layer, red, green, blue) ==
    [kind |-> layer, arg |-> <<"truecolor">>, r |-> red, g |-> green,
     b |-> blue]
Data(ch) == [kind |-> "data", arg |-> <<ch>>, r |-> 0, g |-> 0, b |-> 0]

\* Mutant of channel: the slices are taken one digit late.
channel_shifted(v, i) == HexInt(PySlice(v, 2 * i + 1, 2 * i + 3), 0)

\* int(char.fg[0:2], 16), int(char.fg[2:4], 16), int(char.fg[4:6], 16):
\* channel i = 0, 1, 2 of the colour value v.
channel(v, i) == HexInt(PySlice(v, 2 * i, 2 * i + 2), 0)

\* try: getattr(fg, char.fg) except AttributeError: fg.truecolor(...)
color_directive(layer, v) ==
    IF v \in NamedColors THEN Named(layer, v)
    ELSE TrueColor(layer, channel(v, 0), channel(v, 1), channel(v, 2))

\* _dump_char_full(fh, char): the list msg, in order.
char_msg(char) ==
    <<Fx("reset")>>
    \o <<color_directive("fg", char.fg)>>
    \o <<color_directive("bg", char.bg)>>
    \o (IF char.bold THEN <<Fx("bold")>> ELSE <<>>)
    \o (IF char.italics THEN <<Fx("italic")>> ELSE <<>>)
    \o (IF char.underscore THEN <<Fx("underscore")>> ELSE <<>>)
    \o (IF char.strikethrough THEN <<Fx("crossed_out")>> ELSE <<>>)
    \o (IF char.reverse THEN <<Fx("reverse")>> ELSE <<>>)
    \o <<Data(char.data)>>

\* pyte Chars with every attribute: the arguments of _dump_char_full.
CharInputs ==
    [data : {CellChar}, fg : NamedColors \cup HexColors,
     bg : NamedColors \cup HexColors, bold : BOOLEAN, italics : BOOLEAN,
     underscore : BOOLEAN, strikethrough : BOOLEAN, reverse : BOOLEAN]

\* screen.default_char with its attributes.
DefaultCharRec ==
    [data |-> default_char, fg |-> <<"d", "e", "f", "a", "u", "l", "t">>,
     bg |-> <<"d", "e", "f", "a", "u", "l", "t">>, bold |-> FALSE,
     italics |-> FALSE, underscore |-> FALSE, strikethrough |-> FALSE,
     reverse |-> FALSE]

\* No call of _dump_char_full under observation.
NoCharDump ==
    [char |-> DefaultCharRec, msg |-> <<>>, done |-> FALSE, active |-> FALSE]

\* ------------------------------------------------------------------- state
VARIABLES
    pc,                 \* position of the parent in main()
    child_alive,        \* main(): child_alive
    pty_eio,            \* main(): pty_eio
    buf,                \* main(): buf, Unbound before the first read
    exc,                \* the exception main() died of, "none" otherwise
    child,              \* the child: running, closed (no slave reference
                        \* is left), zombie (exited), reaped
    ptybuf,             \* chunks written to the slave and not yet read
    nwritten,           \* chunks the child has written
    screen_buffer,      \* screen.buffer
    syncat_cb_rowprev,  \* screen.syncat_cb_rowprev (0 while unset)
    out,                \* what has been written to sys.stdout
    dumps,              \* history: the calls of dump_screen
    events,             \* history: the calls of set_window_title_cb
    readlog,            \* history: the chunks os.read returned
    fed,                \* history: the chunks passed to stream.feed
    lastread,           \* history: outcome of the latest os.read
    readalive,          \* history: child_alive at each successful read
    wpid,               \* main(): wpid, -1 before the first os.waitpid
    late_wait,          \* history: os.waitpid was called for a child that
                        \* had been observed as exited
    execst,             \* os.execlp in the child: pending, ok, failed
    child_status,       \* exit status of the child, -1 while it runs
    startup,            \* main() before the loop: inputs and position
    chardump            \* a call of _dump_char_full: its char, its output

vars == <<pc, child_alive, pty_eio, buf, exc, child, ptybuf, nwritten,
          screen_buffer, syncat_cb_rowprev, out, dumps, events, readlog,
          fed, lastread, readalive, wpid, late_wait, execst, child_status,
          startup, chardump>>

loopvars   == <<pc, child_alive, pty_eio, buf, exc, lastread, readlog,
                readalive, wpid, late_wait>>
childvars  == <<child, ptybuf, nwritten, execst, child_status>>
waitvars   == <<wpid, late_wait>>
auxvars    == <<startup, chardump>>
screenvars == <<screen_buffer, syncat_cb_rowprev, out, dumps, events, fed>>

\* The state when main() enters its loop: the child is forked, the screen
\* is new, child_alive = True, pty_eio = False.
LoopInit ==
    /\ pc = "while"
    /\ child_alive = TRUE
    /\ pty_eio = FALSE
    /\ buf = Unbound
    /\ exc = "none"
    /\ child = "running"
    /\ ptybuf = <<>>
    /\ nwritten = 0
    /\ screen_buffer = <<>>
    /\ syncat_cb_rowprev = 0
    /\ out = <<>>
    /\ dumps = <<>>
    /\ events = <<>>
    /\ readlog = <<>>
    /\ fed = <<>>
    /\ lastread = "none"
    /\ readalive = <<>>
    /\ wpid = -1
    /\ late_wait = FALSE
    /\ execst = "pending"
    /\ child_status = -1

Init ==
    /\ LoopInit
    /\ startup = Forked
    /\ chardump = NoCharDump

\* ------------------------------------------------------------- stream.feed
\* The result of the title callback a title chunk c triggers now.
TitleResult(c) ==
    set_title(screen_buffer, syncat_cb_rowprev, c.title, Columns)

\* stream.feed(c) raises: the callback raised RuntimeError.
FeedRaises(c) == c.kind = "title" /\ TitleResult(c).raised

\* stream.feed(c): the terminal updates its state; a title sequence calls
\* screen.set_title synchronously, inside feed.
stream_feed(c) ==
    /\ fed' = Append(fed, c)
    /\ IF c.kind = "title"
       THEN LET r == TitleResult(c)
            IN  /\ screen_buffer' = screen_buffer
                /\ syncat_cb_rowprev' = r.rowprev
                /\ out' = out \o dump_output(r.rows)
                /\ dumps' = IF r.dumped
                            THEN Append(dumps,
                                   [at |-> Len(fed) + 1,
                                    nread |-> Len(readlog),
                                    eio |-> pty_eio,
                                    value |-> r.row,
                                    row_start |-> r.row_start,
                                    row_end |-> r.row_end,
                                    stored |-> SortedSeq(DOMAIN screen_buffer),
                                    rows |-> r.rows])
                            ELSE dumps
                /\ events' = Append(events,
                                   [title |-> c.title,
                                    ok |-> ~r.raised,
                                    value |-> r.row,
                                    dumped |-> r.dumped,
                                    wrote |-> Len(dump_output(r.rows)),
                                    before |-> syncat_cb_rowprev,
                                    after |-> r.rowprev])
       ELSE /\ screen_buffer' = IF c.kind = "draw"
                                THEN ScreenDraw(screen_buffer, c.row, c.col)
                                ELSE ScreenErase(screen_buffer, c.row)
            /\ UNCHANGED <<syncat_cb_rowprev, out, dumps, events>>

\* ------------------------------------------------------------- the child
\* The child (vim, or a shell it runs) writes a chunk to the PTY slave.
ChildWrite(c) ==
    /\ child = "running"
    /\ nwritten < MaxChunks
    /\ ptybuf' = Append(ptybuf, c)
    /\ nwritten' = nwritten + 1
    /\ UNCHANGED <<child, execst, child_status>>
    /\ UNCHANGED loopvars
    /\ UNCHANGED screenvars
    /\ UNCHANGED auxvars

\* os.execlp(cmdline[0], *cmdline) replaces the child's image with vim.
ChildExec ==
    /\ child = "running"
    /\ execst = "pending"
    /\ execst' = "ok"
    /\ UNCHANGED <<child, ptybuf, nwritten, child_status>>
    /\ UNCHANGED loopvars
    /\ UNCHANGED screenvars
    /\ UNCHANGED auxvars

\* os.execlp fails (vim cannot be loaded): it raises OSError.
ChildExecFails ==
    /\ child = "running"
    /\ execst = "pending"
    /\ execst' = "failed"
    /\ UNCHANGED <<child, ptybuf, nwritten, child_status>>
    /\ UNCHANGED loopvars
    /\ UNCHANGED screenvars
    /\ UNCHANGED auxvars

\* The exit status of the child.  After a failed os.execlp the OSError it
\* raised leaves main() uncaught (sys.exit(12) on the next line is not
\* reached) and the interpreter exits with status 1; vim exits with 0.
child_exit_status(e) == IF e = "failed" THEN 1 ELSE 0

\* The last reference to the PTY slave is closed (the child is exiting).
ChildClose ==
    /\ child = "running"
    /\ execst # "pending"
    /\ child' = "closed"
    /\ UNCHANGED <<ptybuf, nwritten, execst, child_status>>
    /\ UNCHANGED loopvars
    /\ UNCHANGED screenvars
    /\ UNCHANGED auxvars

\* The child has exited and can be waited for.
ChildExit ==
    /\ child = "closed"
    /\ child' = "zombie"
    /\ child_status' = child_exit_status(execst)
    /\ UNCHANGED <<ptybuf, nwritten, execst>>
    /\ UNCHANGED loopvars
    /\ UNCHANGED screenvars
    /\ UNCHANGED auxvars

\* --------------------------------------------------- the loop of main()
\* Mutant of loop_cond: the loop ends as soon as either flag is down.
loop_cond_and(alive, eio) == alive /\ ~eio

\* while child_alive or not pty_eio
loop_cond(alive, eio) == alive \/ ~eio

LoopTest ==
    /\ pc = "while"
    /\ pc' = IF loop_cond(child_alive, pty_eio) THEN "waitpid" ELSE "done"
    /\ UNCHANGED <<child_alive, pty_eio, buf, exc, lastread, readlog, readalive>>
    /\ UNCHANGED waitvars
    /\ UNCHANGED childvars
    /\ UNCHANGED screenvars
    /\ UNCHANGED auxvars

\* The process identifier pty_fork() returned, and another one.
ChildPid == 2
OtherPid == 3

\* Mutant of wait_due: os.waitpid is called in every iteration.
wait_due_always(alive) == TRUE

\* if child_alive
wait_due(alive) == alive

\* Mutant of wait_outcome: wpid is not compared with pid.
wait_outcome_unchecked(w, pid) == IF w > 0 THEN "exited" ELSE "running"

\* if wpid > 0: if wpid != pid: raise RuntimeError ... child_alive = False
wait_outcome(w, pid) ==
    IF w > 0 THEN (IF w # pid THEN "raise" ELSE "exited") ELSE "running"

\* wpid, wstatus = os.waitpid(pid, os.WNOHANG) returns wpid = w, and what
\* main() does with it.
WaitPidReturns(w) ==
    /\ pc = "waitpid"
    /\ wait_due(child_alive)
    /\ wpid' = w
    /\ late_wait' = (late_wait \/ ~child_alive)
    /\ child' = IF w = ChildPid /\ child = "zombie" THEN "reaped" ELSE child
    /\ child_alive' = IF wait_outcome(w, ChildPid) = "exited"
                      THEN FALSE ELSE child_alive
    /\ exc' = IF wait_outcome(w, ChildPid) = "raise"
              THEN "RuntimeError" ELSE exc
    /\ pc' = IF wait_outcome(w, ChildPid) = "raise" THEN "raised" ELSE "read"
    /\ UNCHANGED <<pty_eio, buf, lastread, readlog, readalive, ptybuf,
                   nwritten, execst, child_status>>
    /\ UNCHANGED screenvars
    /\ UNCHANGED auxvars

\* The kernel's answer: pid once the child has exited, 0 before.
WaitPid == WaitPidReturns(IF child = "zombie" THEN ChildPid ELSE 0)

\* A simulated os.waitpid that reports a process other than the child.
WaitPidOther == WaitPidReturns(OtherPid)

\* if child_alive is false: os.waitpid is not called.
WaitSkip ==
    /\ pc = "waitpid"
    /\ ~wait_due(child_alive)
    /\ pc' = "read"
    /\ UNCHANGED <<child_alive, pty_eio, buf, exc, lastread, readlog, readalive>>
    /\ UNCHANGED waitvars
    /\ UNCHANGED childvars
    /\ UNCHANGED screenvars
    /\ UNCHANGED auxvars

\* if not pty_eio is false: the iteration ends.
ReadSkip ==
    /\ pc = "read"
    /\ pty_eio
    /\ pc' = "while"
    /\ UNCHANGED <<child_alive, pty_eio, buf, exc, lastread, readlog, readalive>>
    /\ UNCHANGED waitvars
    /\ UNCHANGED childvars
    /\ UNCHANGED screenvars
    /\ UNCHANGED auxvars

\* buf = os.read(ptyfd, 1024) returns the next chunk.
ReadData ==
    /\ pc = "read"
    /\ ~pty_eio
    /\ ptybuf # <<>>
    /\ buf' = Head(ptybuf)
    /\ ptybuf' = Tail(ptybuf)
    /\ readlog' = Append(readlog, Head(ptybuf))
    /\ readalive' = Append(readalive, child_alive)
    /\ lastread' = "data"
    /\ pc' = "feed"
    /\ UNCHANGED <<child_alive, pty_eio, exc, child, nwritten, execst,
                   child_status>>
    /\ UNCHANGED waitvars
    /\ UNCHANGED screenvars
    /\ UNCHANGED auxvars

\* os.read fails with EIO: nothing is buffered and no reference to the
\* slave is left.  pty_eio = True, then control falls through to feed.
ReadEIO ==
    /\ pc = "read"
    /\ ~pty_eio
    /\ ptybuf = <<>>
    /\ child # "running"
    /\ pty_eio' = TRUE
    /\ lastread' = "eio"
    /\ pc' = "feed"
    /\ UNCHANGED <<child_alive, buf, exc, readlog, readalive>>
    /\ UNCHANGED waitvars
    /\ UNCHANGED childvars
    /\ UNCHANGED screenvars
    /\ UNCHANGED auxvars

\* os.read fails with another errno: the OSError is raised again.
ReadError ==
    /\ pc = "read"
    /\ ~pty_eio
    /\ exc' = "OSError"
    /\ lastread' = "err"
    /\ pc' = "raised"
    /\ UNCHANGED <<child_alive, pty_eio, buf, readlog, readalive>>
    /\ UNCHANGED waitvars
    /\ UNCHANGED childvars
    /\ UNCHANGED screenvars
    /\ UNCHANGED auxvars

\* stream.feed(buf), after the try statement.
Feed ==
    /\ pc = "feed"
    /\ IF buf = Unbound
       THEN /\ exc' = "UnboundLocalError"
            /\ pc' = "raised"
            /\ UNCHANGED screenvars
       ELSE /\ stream_feed(buf)
            /\ exc' = IF FeedRaises(buf) THEN "RuntimeError" ELSE "none"
            /\ pc' = IF FeedRaises(buf) THEN "raised" ELSE "while"
    /\ UNCHANGED <<child_alive, pty_eio, buf, lastread, readlog, readalive>>
    /\ UNCHANGED waitvars
    /\ UNCHANGED childvars
    /\ UNCHANGED auxvars

Next ==
    \/ \E c \in PtyChunks : ChildWrite(c)
    \/ ChildExec
    \/ ChildExecFails
    \/ ChildClose
    \/ ChildExit
    \/ LoopTest
    \/ WaitPid
    \/ WaitSkip
    \/ ReadSkip
    \/ ReadData
    \/ ReadEIO
    \/ ReadError
    \/ Feed

Spec == Init /\ [][Next]_vars

\* sys.exit(main()): 0 after return 0, 1 after an uncaught exception.
exit_code(p) == IF p = "done" THEN 0 ELSE 1

\* ------------------------------------------------- the loop, scheduled
\* The child writes only what the protocol expects: characters and
\* line numbers as titles.
LiveChunks == { DrawChunk(0, 0) }
              \cup { TitleChunk(NumText(n)) : n \in 0..MaxTitle }

\* The steps of the parent.
ParentStep ==
    LoopTest \/ WaitPid \/ WaitSkip \/ ReadSkip \/ ReadData \/ ReadEIO \/ Feed

NextLive ==
    \/ \E c \in LiveChunks : ChildWrite(c)
    \/ ChildExec
    \/ ChildExecFails
    \/ ChildClose
    \/ ChildExit
    \/ ParentStep

\* Both processes are scheduled: the parent takes its next step, the
\* child reaches os.execlp, closes the PTY slave and exits.  No read fails
\* with an errno other than EIO.
SpecLive ==
    /\ Init
    /\ [][NextLive]_vars
    /\ WF_vars(ParentStep)
    /\ WF_vars(ChildExec \/ ChildExecFails)
    /\ WF_vars(ChildClose)
    /\ WF_vars(ChildExit)

\* ------------------------------------------------- a simulated waitpid
\* The loop with an os.waitpid that may report a foreign process.
NextSimWait == Next \/ WaitPidOther

SpecSimWait == Init /\ [][NextSimWait]_vars

\* ------------------------------------------- the terminal fed directly
\* A test harness feeding chunks to the stream, without PTY and child.
FeedDirect(c) ==
    /\ Len(fed) < MaxOps
    /\ exc = "none"
    /\ stream_feed(c)
    /\ exc' = IF FeedRaises(c) THEN "RuntimeError" ELSE "none"
    /\ UNCHANGED <<pc, child_alive, pty_eio, buf, lastread, readlog, readalive>>
    /\ UNCHANGED waitvars
    /\ UNCHANGED childvars
    /\ UNCHANGED auxvars

NextScreen == \E c \in Chunks : FeedDirect(c)

SpecScreen == Init /\ [][NextScreen]_vars

\* ------------------------------------------------- main() before the loop
\* cmdline = construct_vim_cmdline(sys.argv[1]): the path is put into the
\* command line as it is; nothing is checked.
ConstructCmdline ==
    /\ startup.pc = "start"
    /\ startup' = [startup EXCEPT !.pc = "size"]
    /\ UNCHANGED <<chardump>>
    /\ UNCHANGED loopvars
    /\ UNCHANGED childvars
    /\ UNCHANGED screenvars

\* cols, rows = os.get_terminal_size(): stdout.
SizeStdout ==
    /\ startup.pc = "size"
    /\ startup' =
          IF startup.q_out.err = "none"
          THEN [startup EXCEPT !.pc = "fork", !.cols = startup.q_out.cols,
                               !.rows = startup.q_out.rows]
          ELSE IF startup.q_out.err = "ENOTTY"
          THEN [startup EXCEPT !.pc = "size_stderr"]
          ELSE [startup EXCEPT !.pc = "raised", !.exc = "OSError"]
    /\ UNCHANGED <<chardump>>
    /\ UNCHANGED loopvars
    /\ UNCHANGED childvars
    /\ UNCHANGED screenvars

\* cols, rows = os.get_terminal_size(sys.stderr.fileno())
SizeStderr ==
    /\ startup.pc = "size_stderr"
    /\ startup' =
          IF startup.q_err.err = "none"
          THEN [startup EXCEPT !.pc = "fork", !.cols = startup.q_err.cols,
                               !.rows = startup.q_err.rows]
          ELSE [startup EXCEPT !.pc = "raised", !.exc = "OSError"]
    /\ UNCHANGED <<chardump>>
    /\ UNCHANGED loopvars
    /\ UNCHANGED childvars
    /\ UNCHANGED screenvars

\* pid, ptyfd = pty_fork(): the PTY is opened and the child is forked.
PtyFork ==
    /\ startup.pc = "fork"
    /\ startup' = [startup EXCEPT !.pc = "forked"]
    /\ UNCHANGED <<chardump>>
    /\ UNCHANGED loopvars
    /\ UNCHANGED childvars
    /\ UNCHANGED screenvars

InitStartup ==
    /\ LoopInit
    /\ startup \in StartStates
    /\ chardump = NoCharDump

NextStartup == ConstructCmdline \/ SizeStdout \/ SizeStderr \/ PtyFork

SpecStartup == InitStartup /\ [][NextStartup]_vars

\* ------------------------------------------- _dump_char_full on its own
DumpCharFull ==
    /\ chardump.active
    /\ ~chardump.done
    /\ chardump' = [chardump EXCEPT !.msg = char_msg(chardump.char),
                                    !.done = TRUE]
    /\ UNCHANGED <<startup>>
    /\ UNCHANGED loopvars
    /\ UNCHANGED childvars
    /\ UNCHANGED screenvars

InitChar ==
    /\ LoopInit
    /\ startup = Forked
    /\ chardump \in { [char |-> c, msg |-> <<>>, done |-> FALSE,
                        active |-> TRUE] : c \in CharInputs }

NextChar == DumpCharFull

SpecChar == InitChar /\ [][NextChar]_vars

\* ================================================================ claims
\* The character emissions among what was written for a row.
CharToks(toks) == SelectSeq(toks, LAMBDA t : t.kind = "char")

\* The column cursor after a row: one past the last emitted column.
RowCursor(toks) ==
    LET cs == CharToks(toks)
    IN  IF cs = <<>> THEN 0 ELSE cs[Len(cs)].col + 1

HasNewline(toks) == \E k \in 1..Len(toks) : toks[k].kind = "nl"

\* The cells of a stored row are in increasing column order.
Ascending(cells) ==
    \A i, j \in 1..Len(cells) : i < j => cells[i].col < cells[j].col

\* The dumped rows of the session: (dump, position in the dump).
DumpedRowIds == { <<i, k>> : i \in 1..Len(dumps), k \in 1..MAX_LINES + 1 }
DumpedRows == { id \in DumpedRowIds : id[2] <= Len(dumps[id[1]].rows) }
RowOf(id) == dumps[id[1]].rows[id[2]]

\* The value of the latest title event before event i that triggered a
\* dump, 0 if there is none.
LastTriggered(i) ==
    LET S == { j \in 1..(i - 1) : events[j].dumped }
    IN  IF S = {} THEN 0
        ELSE events[CHOOSE j \in S : \A l \in S : l <= j].value

\* ---------------------------------------------------------------- C1
\* C1 (as claimed): at every iteration boundary of the feed loop the chunks
\* passed to stream.feed are exactly the chunks os.read returned, in
\* order, each once; an iteration whose read failed with EIO feeds nothing.
C1_FedIsExactlyRead ==
    pc \in {"while", "waitpid", "read", "done"} => fed = readlog

\* ---------------------------------------------------------------- C2
\* C2: main() leaves the loop only when the child is reaped and the read
\* of the PTY master has reported EIO; by then every chunk the child wrote
\* has been read and fed, also those read after the child was reaped.
C2_ExitOnlyReapedAndEIO ==
    pc = "done" =>
        /\ ~child_alive
        /\ child = "reaped"
        /\ pty_eio
        /\ ptybuf = <<>>
        /\ Len(readlog) = nwritten
        /\ \A k \in 1..Len(readlog) : fed[k] = readlog[k]

\* C2 witness: the loop has ended after reading at least one chunk when
\* the child was already reaped.
C2_Witness ==
    /\ pc = "done"
    /\ \E k \in 1..Len(readalive) : ~readalive[k]

\* ---------------------------------------------------------------- C3
\* C3: a title event triggers a dump exactly when its value is strictly
\* greater than the last value that triggered one (0 at first); any other
\* event writes nothing, and no value triggers two dumps.
C3_DumpOnlyOnStrictIncrease ==
    /\ \A i \in 1..Len(events) :
          events[i].ok =>
             /\ events[i].dumped <=> (events[i].value > LastTriggered(i))
             /\ ~events[i].dumped => events[i].wrote = 0
    /\ \A i, j \in 1..Len(events) :
          (i < j /\ events[i].dumped /\ events[j].dumped)
             => events[i].value # events[j].value
    /\ Len(dumps) = Cardinality({ i \in 1..Len(events) : events[i].dumped })

\* C3 witness: two events with the same value; the first dumped and wrote
\* something, the second did not.
C3_Witness ==
    \E i, j \in 1..Len(events) :
        /\ i < j
        /\ events[i].ok /\ events[j].ok
        /\ events[i].value = events[j].value
        /\ events[i].dumped /\ events[i].wrote > 0
        /\ ~events[j].dumped

\* ---------------------------------------------------------------- C4
\* C4 (as claimed): a dump triggered by title value n emits exactly the
\* rows with index 0..n-1, in increasing order: no row of the range is
\* skipped and no row with index >= n is emitted.
C4_DumpsRowIndexRange ==
    \A i \in 1..Len(dumps) :
        LET d == dumps[i]
        IN  /\ Len(d.rows) = d.value
            /\ \A k \in 1..Len(d.rows) : d.rows[k].rowidx = k - 1

\* ---------------------------------------------------------------- C5
\* C5 (as claimed): within every dumped row the stored cells are emitted
\* in strictly increasing column order, whatever their storage order.
C5_CellsInColumnOrder ==
    \A id \in DumpedRows :
        LET own == SelectSeq(RowOf(id).toks,
                             LAMBDA t : t.kind = "char" /\ ~t.dflt)
        IN  \A a, b \in 1..Len(own) : a < b => own[a].col < own[b].col

\* ---------------------------------------------------------------- C6
\* C6: for a dumped row whose cells are stored in increasing column order
\* there is exactly one character emission per column from 0 to the last
\* occupied column: the default character for an unoccupied column, the
\* cell's own character for an occupied one.
C6_GapsFilledWithDefault ==
    \A id \in DumpedRows :
        LET r  == RowOf(id)
            cs == CharToks(r.toks)
        IN  Ascending(r.cells) =>
              /\ Len(cs) = IF r.cells = <<>> THEN 0
                           ELSE r.cells[Len(r.cells)].col + 1
              /\ \A k \in 1..Len(cs) :
                    /\ cs[k].col = k - 1
                    /\ cs[k].row = r.rowidx
                    /\ cs[k].dflt <=> ~RowHas(r.cells, k - 1)
                    /\ cs[k].dflt => cs[k].data = default_char
                    /\ ~cs[k].dflt =>
                          \E m \in 1..Len(r.cells) :
                              /\ r.cells[m].col = k - 1
                              /\ r.cells[m].data = cs[k].data

\* C6 witness: one dump holds a row with a gap before its first cell and a
\* row with a gap between two cells, both stored in column order.
C6_Witness ==
    \E id1, id2 \in DumpedRows :
        /\ id1[1] = id2[1]
        /\ Ascending(RowOf(id1).cells) /\ Ascending(RowOf(id2).cells)
        /\ Len(RowOf(id1).cells) = 1 /\ RowOf(id1).cells[1].col > 0
        /\ Len(RowOf(id2).cells) = 2
        /\ RowOf(id2).cells[2].col > RowOf(id2).cells[1].col + 1

\* ---------------------------------------------------------------- C7
\* C7 (as claimed): a dumped row ends with a style reset and line
\* terminator if and only if its column cursor is less than columns - 1;
\* a row occupied through its final column gets none.
C7_NewlineIffCursorBeforeLastColumn ==
    \A id \in DumpedRows :
        HasNewline(RowOf(id).toks) <=> (RowCursor(RowOf(id).toks) < Columns - 1)

\* ---------------------------------------------------------------- C8
\* C8 (as claimed): a dump for v2 after a dump for v1 < v2 starts at row
\* v1, and no grid row is written to the output more than once.
C8_OnlyNewRowsDumped ==
    /\ \A i \in 2..Len(dumps) : dumps[i].row_start = dumps[i - 1].value
    /\ \A id1, id2 \in DumpedRows :
          id1 # id2 => RowOf(id1).rowidx # RowOf(id2).rowidx

\* C8 (amended): every dump, also one for v2 after a dump for v1 < v2, is
\* dump_screen(screen, 0, v2): it starts again at the first stored row and
\* walks the first v2 stored rows.
C8_EveryDumpStartsAtRowZero ==
    \A i \in 1..Len(dumps) :
        LET d == dumps[i]
        IN  /\ d.row_start = 0
            /\ d.row_end = d.value
            /\ i > 1 => dumps[i - 1].value < d.value
            /\ Len(d.rows) = Min(d.value, Len(d.stored))
            /\ \A k \in 1..Len(d.rows) : d.rows[k].rowidx = d.stored[k]

\* C8 witness: a second dump for a larger value wrote a row that the first
\* dump had written.
C8_Witness ==
    /\ Len(dumps) >= 2
    /\ dumps[1].value < dumps[2].value
    /\ \E k \in 1..Len(dumps[1].rows), l \in 1..Len(dumps[2].rows) :
          /\ dumps[1].rows[k].rowidx = dumps[2].rows[l].rowidx
          /\ dumps[1].rows[k].toks # <<>>

\* ---------------------------------------------------------------- C9
\* The value of the k-th chunk read, if it is a well-formed title.
ReadTitleVal(k) == ParseInt(readlog[k].title).val

ReadIsTitle(k) == readlog[k].kind = "title" /\ ParseInt(readlog[k].title).ok

\* The k-th chunk read carries a signal that is due a dump: its value
\* exceeds 0 and every title value read before it.
Signals(k) ==
    /\ ReadIsTitle(k)
    /\ ReadTitleVal(k) > 0
    /\ \A j \in 1..(k - 1) : ReadIsTitle(j) => ReadTitleVal(j) < ReadTitleVal(k)

\* The chunks whose feed has returned.
FeedReturned ==
    IF pc = "feed" /\ lastread = "data" THEN Len(readlog) - 1
    ELSE Len(readlog)

\* C9: the dump for a signal in chunk k is written inside the feed of
\* chunk k: before chunk k+1 is read, before pty_eio is set and before the
\* loop is left.
C9_DumpBeforeNextReadAndEIO ==
    /\ \A k \in 1..FeedReturned :
          Signals(k) =>
             \E i \in 1..Len(dumps) :
                 /\ dumps[i].nread = k
                 /\ dumps[i].at = k
                 /\ dumps[i].value = ReadTitleVal(k)
                 /\ ~dumps[i].eio
    /\ \A i \in 1..Len(dumps) : dumps[i].nread <= FeedReturned
    /\ out = Flatten([i \in 1..Len(dumps) |->
                      dump_output(dumps[i].rows)])

\* C9 witness: end-of-output was observed after a dump that wrote rows and
\* after which a further chunk was read.
C9_Witness ==
    /\ pty_eio
    /\ \E i \in 1..Len(dumps) :
          /\ dumps[i].rows # <<>>
          /\ dumps[i].nread < Len(readlog)

\* --------------------------------------------------------------- C10
\* C10 (as claimed): a read that fails with EIO sets pty_eio and raises
\* nothing, also when it is the first read; a read that fails with
\* another errno is fatal.
C10_EIOIsNeverAnError ==
    /\ lastread = "eio" => (pty_eio /\ exc = "none")
    /\ lastread = "err" => (pc = "raised" /\ exc = "OSError")

\* --------------------------------------------------------------- C11
\* C11: when os.waitpid reports a positive process identifier other than
\* the child's, main() dies of RuntimeError in that iteration: child_alive
\* is not cleared, and nothing is read, fed or written any more.
C11_ForeignPidIsFatal ==
    /\ []((wpid > 0 /\ wpid # ChildPid) =>
            (pc = "raised" /\ exc = "RuntimeError" /\ child_alive))
    /\ [][(wpid' > 0 /\ wpid' # ChildPid) =>
            (fed' = fed /\ readlog' = readlog /\ out' = out
             /\ pty_eio' = pty_eio)]_vars

\* C11 witness: the foreign identifier was reported in a later iteration,
\* after chunks had been read and fed.
C11_Witness ==
    /\ wpid = OtherPid
    /\ pc = "raised"
    /\ Len(fed) > 0

\* --------------------------------------------------------------- C12
\* C12 (as claimed): when main() returns, the exit code of the program is
\* 0 if vim was loaded and non-zero if os.execlp failed in the child.
C12_ExitCodeReportsExecFailure ==
    pc = "done" =>
        IF execst = "failed" THEN exit_code(pc) # 0 ELSE exit_code(pc) = 0

\* --------------------------------------------------------------- C13
\* C13 (as claimed): after a failed os.execlp the child exits with status
\* 12, without control leaving the child branch of main().
C13_ExecFailureExitsWith12 ==
    (execst = "failed" /\ child_status # -1) => child_status = 12

\* --------------------------------------------------------------- C18
\* C18: child_alive is cleared only by the os.waitpid of the loop, when it
\* reports the child; after that os.waitpid is never called again.
C18_NoWaitAfterExit ==
    /\ [](~late_wait)
    /\ [][(child_alive /\ ~child_alive') =>
            (pc = "waitpid" /\ wpid' = ChildPid /\ child' = "reaped")]_vars

\* C18 witness: an iteration that starts after the child was reaped while
\* the PTY still holds a chunk.
C18_Witness ==
    /\ pc = "waitpid"
    /\ ~child_alive
    /\ ~pty_eio
    /\ ptybuf # <<>>
    /\ wpid = ChildPid

\* --------------------------------------------------------------- C19
\* C19 (as claimed): while child_alive is true every iteration of the loop
\* reads the PTY; no iteration consists of the exit check alone.
C19_EveryIterationReadsWhileAlive ==
    (pc = "read" /\ child_alive) => ~pty_eio

\* --------------------------------------------------------------- C14
\* C14 (as claimed): pty_fork() is reached only if sys.argv[1] names a
\* regular readable file and the terminal size was obtained from stdout
\* or, stdout not being a terminal, from stderr.
C14_NoForkAfterFailedValidation ==
    startup.pc \in {"fork", "forked"} =>
        /\ startup.path = "regular"
        /\ \/ startup.q_out.err = "none"
           \/ startup.q_out.err = "ENOTTY" /\ startup.q_err.err = "none"

\* --------------------------------------------------------------- C16
\* The colour directive the claim expects for value v.
ExpectedColor(layer, v) ==
    IF v \in NamedColors THEN Named(layer, v)
    ELSE TrueColor(layer, 16 * HexVal(v[1]) + HexVal(v[2]),
                          16 * HexVal(v[3]) + HexVal(v[4]),
                          16 * HexVal(v[5]) + HexVal(v[6]))

\* C16: _dump_char_full emits the style reset first, then the foreground
\* and the background directive (the named colour for a recognized name,
\* else the 24-bit colour of hex-digit pairs 0-1, 2-3, 4-5), and the
\* character last.
C16_ColorsDecodedAndOrdered ==
    chardump.done =>
        LET m == chardump.msg
            c == chardump.char
        IN  /\ Len(m) >= 4
            /\ m[1] = Fx("reset")
            /\ m[2] = ExpectedColor("fg", c.fg)
            /\ m[3] = ExpectedColor("bg", c.bg)
            /\ m[Len(m)] = Data(c.data)
            /\ \A k \in 2..Len(m) : m[k] # Fx("reset")
            /\ \A k \in 1..(Len(m) - 1) : m[k].kind # "data"

\* C16 witness: foreground "1a2b3c" gave channels 0x1a, 0x2b, 0x3c and
\* background "red" gave the named colour.
C16_Witness ==
    /\ chardump.done
    /\ chardump.char.fg = <<"1", "a", "2", "b", "3", "c">>
    /\ chardump.char.bg = <<"r", "e", "d">>
    /\ chardump.msg[2] = TrueColor("fg", 26, 43, 60)
    /\ chardump.msg[3] = Named("bg", <<"r", "e", "d">>)

\* --------------------------------------------------------------- C15
\* The title is the text of an unsigned integer: decimal digits only.
IsUnsignedText(t) == Len(t) > 0 /\ \A i \in 1..Len(t) : IsDigit(t[i])

\* C15 (as claimed): every title that is not an unsigned integer makes
\* set_window_title_cb raise; none is ignored or triggers a dump.
C15_OnlyUnsignedTitlesAccepted ==
    \A i \in 1..Len(events) :
        ~IsUnsignedText(events[i].title) =>
            (~events[i].ok /\ ~events[i].dumped)

\* --------------------------------------------------------------- C17
\* The greatest title value the callback has accepted so far, 0 at least.
RECURSIVE MaxValue(_, _)
MaxValue(evs, acc) ==
    IF evs = <<>> THEN acc
    ELSE MaxValue(Tail(evs),
                  IF Head(evs).ok /\ Head(evs).value > acc
                  THEN Head(evs).value ELSE acc)

\* C17: syncat_cb_rowprev never decreases and always equals the maximum
\* of 0 and the title values observed so far.
C17_RowprevIsRunningMaximum ==
    /\ syncat_cb_rowprev = MaxValue(events, 0)
    /\ \A i \in 1..Len(events) :
          /\ events[i].before = (IF i = 1 THEN 0 ELSE events[i - 1].after)
          /\ events[i].after >= events[i].before
          /\ events[i].ok => events[i].after = MaxValue(SubSeq(events, 1, i), 0)
    /\ events # <<>> => syncat_cb_rowprev = events[Len(events)].after

\* C17 witness: a lower value and a negative value came after a higher
\* one, which is still the stored value.
C17_Witness ==
    \E i, j, k \in 1..Len(events) :
        /\ i < j /\ i < k
        /\ events[i].ok /\ events[j].ok /\ events[k].ok
        /\ events[j].value < events[i].value /\ events[j].value > 0
        /\ events[k].value < 0
        /\ syncat_cb_rowprev = events[i].value

\* --------------------------------------------------------------- C20
\* C20 (as claimed): when both processes are scheduled, the child exits
\* and the PTY slave is closed, the loop terminates and main() returns 0,
\* and sys.stdout holds only what the dumps wrote.
C20_LoopTerminatesWithZero ==
    /\ <>(pc = "done" /\ exit_code(pc) = 0)
    /\ [](out = Flatten([i \in 1..Len(dumps) |->
                            dump_output(dumps[i].rows)]))

====
